---- MODULE Spec2Model ----
(***************************************************************************)
(* KLHeadDiversificationCriterion                                          *)
(* (src/fairseq/criterions/kl_head_diversification.py).                    *)
(*                                                                         *)
(* Numbers.  Tensor elements are fixed-point integers in units of 5e-8,    *)
(* so that 1.0, the 1e-6 tolerance, the 1e-7 floor and a value strictly    *)
(* between 0 and 1e-7 are all exact.  torch.log is taken at a resolution   *)
(* of a quarter of a bit (ln(2)/4 nats), rounded to nearest.  A divergence *)
(* is therefore an integer in units of 5e-8 * ln(2)/4 nats, and the loss   *)
(* is kept in the same unit.  torch.mean rounds down to that resolution.   *)
(* A float is a record [nan, v]; NaN is the result of a mean over no       *)
(* element.                                                                *)
(*                                                                         *)
(* Tensors.  A tensor is [shape, rows]: rows are the last-axis slices in   *)
(* row-major order of the leading axes.  torch.tensor([]) has shape <<0>>  *)
(* and one last-axis slice of length 0.                                    *)
(***************************************************************************)
EXTENDS Integers, Sequences, FiniteSets, TLC

VARIABLES sentence_avg, epsilon, weights, op, args, ret, mem, layers

vars == <<sentence_avg, epsilon, weights, op, args, ret, mem, layers>>

----------------------------------------------------------------------------
(* Bounds *)

MaxLayers == 2

MaxHeads == 3

MaxRows == 2

----------------------------------------------------------------------------
(* Fixed-point scale and the constants of KL_div *)

One == 20000000

Tol == 20

Floor == 2

NaN == [nan |-> TRUE, v |-> 0]

Num(x) == [nan |-> FALSE, v |-> x]

RECURSIVE SeqSum(_)
SeqSum(s) == IF Len(s) = 0 THEN 0 ELSE Head(s) + SeqSum(Tail(s))

\* t.view(-1) of a nested sequence
RECURSIVE Flatten(_)
Flatten(t) == IF Len(t) = 0 THEN <<>> ELSE Head(t) \o Flatten(Tail(t))

RECURSIVE Prod(_)
Prod(s) == IF Len(s) = 0 THEN 1 ELSE Head(s) * Prod(Tail(s))

Abs(x) == IF x < 0 THEN -x ELSE x

\* torch.mean over a sequence of floats: NaN over no element or over a NaN,
\* otherwise floor(sum / n), computed without forming the sum.
mean(s) ==
    LET n == Len(s) IN
    IF n = 0 \/ (\E i \in 1..n : s[i].nan) THEN NaN
    ELSE Num(SeqSum([i \in 1..n |-> s[i].v \div n])
             + (SeqSum([i \in 1..n |-> s[i].v % n]) \div n))

\* LogThresholds[k] is the least x with round(4 * log2(x / One)) > -k.
LogThresholds ==
    << 18340081, 15422109, 12968396, 10905078, 9170041, 7711055, 6484198,
       5452539, 4585021, 3855528, 3242099, 2726270, 2292511, 1927764,
       1621050, 1363135, 1146256, 963882, 810525, 681568, 573128, 481941,
       405263, 340784, 286564, 240971, 202632, 170392, 143282, 120486,
       101316, 85196, 71641, 60243, 50658, 42598, 35821, 30122, 25329,
       21299, 17911, 15061, 12665, 10650, 8956, 7531, 6333, 5325, 4478,
       3766, 3167, 2663, 2239, 1883, 1584, 1332, 1120, 942, 792, 666, 560,
       471, 396, 333, 280, 236, 198, 167, 140, 118, 99, 84, 70, 59, 50, 42,
       35, 30, 25, 21, 18, 15, 13, 11, 9, 8, 7, 6, 5, 4, 4, 3, 3, 2, 2, 2,
       2 >>

\* the number of thresholds above x, by bisection of the descending table
RECURSIVE Above(_, _, _)
Above(x, lo, hi) ==
    IF lo = hi THEN lo
    ELSE LET mid == (lo + hi + 1) \div 2
         IN  IF x < LogThresholds[mid] THEN Above(x, mid, hi)
             ELSE Above(x, lo, mid - 1)

\* torch.log of an element x: round(4 * log2(x / One)), for
\* 1 <= x < One * 2^(1/8)
log(x) == 0 - Above(x, 0, Len(LogThresholds))

----------------------------------------------------------------------------
(* Tensor primitives *)

Tensor(shape, rows) == [shape |-> shape, rows |-> rows]

\* torch.tensor([])
EmptyTensor == Tensor(<<0>>, << <<>> >>)

\* weight.size(0)
size0(t) == t.shape[1]

\* weight[i, :, :, :] for a 0-based i
Slice(t, i) ==
    LET m == Prod(SubSeq(t.shape, 2, Len(t.shape) - 1))
    IN  Tensor(Tail(t.shape), SubSeq(t.rows, i * m + 1, (i + 1) * m))

unsqueeze0(t) == Tensor(<<1>> \o t.shape, t.rows)

\* torch.cat((a, b), 0); the result has storage of its own.  A 1-D empty
\* tensor is skipped.
cat(a, b) ==
    IF a.shape = <<0>> THEN Tensor(b.shape, b.rows)
    ELSE Tensor(<<a.shape[1] + b.shape[1]>> \o Tail(a.shape), a.rows \o b.rows)

\* torch.sum(t, -1)
sum_last(t) == [r \in 1..Len(t.rows) |-> SeqSum(t.rows[r])]

----------------------------------------------------------------------------
(* KL_div *)

\* variant: torch.any in place of torch.all
IsProbAny(s) == \E r \in 1..Len(s) : Abs(s[r] - One) < Tol

\* torch.all(torch.lt(torch.abs(torch.add(sum_t, -ones)), 1e-6))
IsProb(s) == \A r \in 1..Len(s) : Abs(s[r] - One) < Tol

\* variant: q[q <= 0] = 1e-7
FloorZeroOnly(x) == IF x <= 0 THEN Floor ELSE x

\* one element of q[q <= 1e-7] = 1e-7
FloorElem(x) == IF x <= Floor THEN Floor ELSE x

InplaceFloor(q) ==
    Tensor(q.shape,
           [r \in 1..Len(q.rows) |->
               [k \in 1..Len(q.rows[r]) |-> FloorElem(q.rows[r][k])]])

\* one element of F.kl_div(log(q), p, reduction="none"):
\* xlogy(p, p) - p * log(q)
Pointwise(pe, qe) == IF pe = 0 THEN 0 ELSE pe * (log(pe) - log(qe))

\* torch.sum(F.kl_div(...), -1)
RowDiv(p, q) ==
    [r \in 1..Len(p.rows) |->
        Num(SeqSum([k \in 1..Len(p.rows[r]) |->
                        Pointwise(p.rows[r][k], q.rows[r][k])]))]

\* the value returned once the assertions have passed; p1 and q1 are p and
\* q after the in-place floor
Divergence(p1, q1) ==
    [err |-> "none", msg |-> "", value |-> mean(RowDiv(p1, q1)),
     p |-> p1, q |-> q1]

Floored(p, q1, same) == Divergence(IF same THEN q1 ELSE p, q1)

Raise(msg, p, q) ==
    [err |-> "AssertionError", msg |-> msg, value |-> NaN, p |-> p, q |-> q]

\* KL_div(p, q).  same is TRUE when the caller passes one tensor as both
\* arguments.  The result carries what the call returns or raises, and p and
\* q as the in-place assignment to q leaves them.
KL_div(p, q, same) ==
    IF p.shape # q.shape THEN Raise("p, q must be the same size", p, q)
    ELSE IF ~IsProb(sum_last(p))
    THEN Raise("p has at least 1 non prob distribution", p, q)
    ELSE IF ~IsProb(sum_last(q))
    THEN Raise("q has at least 1 non prob distribution", p, q)
    ELSE Floored(p, InplaceFloor(q), same)

----------------------------------------------------------------------------
(* Inputs of a direct call of KL_div *)

Half == One \div 2

\* last-axis slices of length 2: uniform; one entry strictly between 0 and
\* 1e-7; one zero entry; sum off by 5e-7; sum off by exactly 1e-6; sum off
\* by 2e-6
RowsP ==
    { <<Half, Half>>, <<One - 1, 1>>, <<One, 0>>, <<Half, Half + 10>>,
      <<Half, Half + 20>>, <<Half, Half + 40>> }

\* q may also hold a negative entry
RowsQ == RowsP \cup { <<One + 1, 0 - 1>> }

Mat(rowset) ==
    UNION { { Tensor(<<n, 2>>, rs) : rs \in [1..n -> rowset] } : n \in 1..MaxRows }

Other == { EmptyTensor, Tensor(<<1, 3>>, << <<Half, Half \div 2, Half \div 2>> >>) }

TensorsP == Mat(RowsP) \cup Other

TensorsQ == Mat(RowsQ) \cup Other

----------------------------------------------------------------------------
(* Direct calls of the static method KL_div *)

NoCall == [err |-> "none"]

KLInputs ==
    { [p |-> p, q |-> q, same |-> FALSE] : p \in TensorsP, q \in TensorsQ }
    \cup { [p |-> t, q |-> t, same |-> TRUE] : t \in TensorsQ }

InitKL ==
    /\ sentence_avg = FALSE
    /\ epsilon = 0
    /\ weights = <<>>
    /\ op = "none"
    /\ args \in KLInputs
    /\ ret = NoCall
    /\ mem = <<>>
    /\ layers = <<>>

KLStep(r) ==
    /\ op = "none"
    /\ op' = "KL_div"
    /\ ret' = [err |-> r.err, msg |-> r.msg, value |-> r.value]
    /\ mem' = [p |-> r.p, q |-> r.q]
    /\ UNCHANGED <<sentence_avg, epsilon, weights, args, layers>>

\* KL_div(p, q) on the tensors of args
CallKL_div == KLStep(KL_div(args.p, args.q, args.same))

NextKL == CallKL_div

SpecKL == InitKL /\ [][NextKL]_vars

----------------------------------------------------------------------------
(* The attention weights a model may hold *)

\* heads of shape [1, 2, 2] (batch 1, two query positions, two keys)
HeadA == << <<Half, Half>>, <<One \div 4, 3 * (One \div 4)>> >>

HeadB == << <<One - 1, 1>>, <<Half, Half>> >>

Heads == {HeadA, HeadB}

\* the layer tensor of shape [H, 1, 2, 2] holding the heads hs
Layer(hs) == Tensor(<<Len(hs), 1, 2, 2>>, Flatten(hs))

\* layer tensors of 0..MaxHeads heads: head a at the odd positions and head b
\* at the even ones
LayerSet ==
    { Layer([h \in 1..H |-> IF h % 2 = 1 THEN ab[1] ELSE ab[2]]) :
          H \in 0..MaxHeads, ab \in Heads \X Heads }

WeightsSet == UNION { [1..n -> LayerSet] : n \in 0..MaxLayers }

----------------------------------------------------------------------------
(* calculate_kl_div_reward *)

\* variant: for j in range(i, num_heads)
FirstJFromI(i) == i

\* first j of: for j in range(i + 1, num_heads)
FirstJ(i) == i + 1

\* the loop over j; pairs records the (i, j) of every concatenation
RECURSIVE InnerLoop(_, _, _, _)
InnerLoop(weight, i, j, acc) ==
    IF j >= size0(weight) THEN acc
    ELSE InnerLoop(weight, i, j + 1,
            [p_mat |-> cat(acc.p_mat, unsqueeze0(Slice(weight, i))),
             q_mat |-> cat(acc.q_mat, unsqueeze0(Slice(weight, j))),
             pairs |-> Append(acc.pairs, <<i, j>>)])

\* the loop over i
RECURSIVE OuterLoop(_, _, _)
OuterLoop(weight, i, acc) ==
    IF i >= size0(weight) THEN acc
    ELSE OuterLoop(weight, i + 1, InnerLoop(weight, i, FirstJ(i), acc))

Stack(weight) ==
    OuterLoop(weight, 0,
              [p_mat |-> EmptyTensor, q_mat |-> EmptyTensor, pairs |-> <<>>])

\* variant: q_mat a view of weight, so that the floor reaches the layer
WrittenThrough(weight, r) ==
    IF r.err = "none" THEN InplaceFloor(weight) ELSE weight

\* The layer tensor after KL_div(p_mat, q_mat) has assigned to q_mat in
\* place: q_mat is a result of torch.cat and shares no storage with weight.
Written(weight, r) == weight

\* variant: the score of the last layer only
LastScore(kl_scores) ==
    IF Len(kl_scores) = 0 THEN NaN ELSE kl_scores[Len(kl_scores)]

\* torch.mean(kl_scores)
MeanScore(kl_scores) == mean(kl_scores)

\* what the loop body keeps of one layer: the stacks st as built, and the
\* outcome r of KL_div on them
LayerRecord(weight, st, r) ==
    [pairs |-> st.pairs, p_mat |-> st.p_mat, q_mat |-> st.q_mat,
     q_after |-> r.q, err |-> r.err, msg |-> r.msg, score |-> r.value,
     weight |-> Written(weight, r)]

\* score = self.KL_div(p_mat, q_mat)
ScoreStacks(weight, st) ==
    LayerRecord(weight, st, KL_div(st.p_mat, st.q_mat, FALSE))

\* the body of the loop over the layers, for one layer tensor
ScoreLayer(weight) == ScoreStacks(weight, Stack(weight))

\* ScoreLayer, tabulated over the layer tensors of LayerSet
LayerTable == [w \in LayerSet |-> ScoreLayer(w)]

LayerResult(weight) ==
    IF weight \in DOMAIN LayerTable THEN LayerTable[weight]
    ELSE ScoreLayer(weight)

\* the loop over the layers; it ends at the first layer whose KL_div raises
RECURSIVE LayerLoop(_, _, _)

\* kl_scores = torch.cat((kl_scores, score.unsqueeze(0)), 0), or the raise
Accumulate(ws, l, acc, rec) ==
    IF rec.err # "none"
    THEN [acc EXCEPT !.err = rec.err, !.msg = rec.msg,
                     !.layers = Append(@, rec)]
    ELSE LayerLoop(ws, l + 1,
            [acc EXCEPT !.kl_scores = Append(@, rec.score),
                        !.weights[l] = rec.weight,
                        !.layers = Append(@, rec)])

LayerLoop(ws, l, acc) ==
    IF l > Len(ws) THEN acc ELSE Accumulate(ws, l, acc, LayerResult(ws[l]))

\* return torch.mean(kl_scores), unless a layer raised
Outcome(a) ==
    [err |-> a.err, msg |-> a.msg,
     value |-> IF a.err = "none" THEN MeanScore(a.kl_scores) ELSE NaN,
     kl_scores |-> a.kl_scores, weights |-> a.weights, layers |-> a.layers]

calculate_kl_div_reward(ws) ==
    Outcome(LayerLoop(ws, 1, [err |-> "none", msg |-> "", kl_scores |-> <<>>,
                              weights |-> ws, layers |-> <<>>]))

----------------------------------------------------------------------------
(* compute_loss and forward *)

padding_idx == "pad"

\* lprobs[n][v] as the model's get_normalized_probs gives them for position n
lprobs(n) == [v \in {"a", "b", "pad"} |->
                 IF v = "a" THEN 0 - 3000 * n
                 ELSE IF v = "b" THEN 0 - (5000 * n + 1000)
                 ELSE 0 - 7000]

\* F.nll_loss(lprobs, target, ignore_index=padding_idx, reduction='none')
nll_none(target) ==
    [n \in 1..Len(target) |->
        IF target[n] = padding_idx THEN Num(0)
        ELSE Num(0 - lprobs(n)[target[n]])]

\* F.nll_loss(..., reduction='sum' if reduce else 'none'); a reduced loss is
\* a 0-dim tensor, written as a sequence of length 1
nll_loss(target, reduce) ==
    IF reduce THEN << Num(SeqSum([n \in 1..Len(target) |-> nll_none(target)[n].v])) >>
    ELSE nll_none(target)

\* variant: loss += kl_reg * self.epsilon
AddReg(x, kl_reg, eps) ==
    IF x.nan \/ kl_reg.nan THEN NaN ELSE Num(x.v + kl_reg.v * eps)

\* one element of: loss -= kl_reg * self.epsilon
SubReg(x, kl_reg, eps) ==
    IF x.nan \/ kl_reg.nan THEN NaN ELSE Num(x.v - kl_reg.v * eps)

\* loss -= kl_reg * self.epsilon; return loss, kl_reg
Regularized(loss, rw, eps) ==
    IF rw.err # "none"
    THEN [err |-> rw.err, msg |-> rw.msg, weights |-> rw.weights,
          layers |-> rw.layers]
    ELSE [err |-> "none", msg |-> "",
          loss |-> [n \in 1..Len(loss) |-> SubReg(loss[n], rw.value, eps)],
          kl_reg |-> rw.value, weights |-> rw.weights,
          layers |-> rw.layers]

compute_loss(ws, sample, reduce, eps) ==
    Regularized(nll_loss(Flatten(sample.target), reduce),
                calculate_kl_div_reward(ws), eps)

\* variant: the two branches exchanged
SampleSizeSwapped(sample, savg) ==
    IF savg THEN sample.ntokens ELSE Len(sample.target)

\* sample['target'].size(0) if self.sentence_avg else sample['ntokens']
SampleSize(sample, savg) ==
    IF savg THEN Len(sample.target) ELSE sample.ntokens

\* the tuple forward returns, from what compute_loss returned
Logged(cl, sample, sample_size) ==
    IF cl.err # "none" THEN cl
    ELSE [err |-> "none", msg |-> "", loss |-> cl.loss,
          sample_size |-> sample_size,
          logging_output |->
              [loss |-> cl.loss, ntokens |-> sample.ntokens,
               nsentences |-> Len(sample.target),
               sample_size |-> sample_size, kl_reg |-> cl.kl_reg],
          weights |-> cl.weights, layers |-> cl.layers]

forward(ws, sample, reduce, eps, savg) ==
    Logged(compute_loss(ws, sample, reduce, eps), sample,
           SampleSize(sample, savg))

----------------------------------------------------------------------------
(* The model's attention weights, the samples and the configuration *)

Samples ==
    { [target |-> << <<"a", "b">> >>, ntokens |-> 2],
      [target |-> << <<"a", "pad">>, <<"b", "b">> >>, ntokens |-> 3] }

\* values of --kl-reg
KlRegs == {0, 2}

Init ==
    /\ sentence_avg \in BOOLEAN
    /\ epsilon \in KlRegs
    /\ weights \in WeightsSet
    /\ op = "none"
    /\ args = <<>>
    /\ ret = NoCall
    /\ mem = <<>>
    /\ layers = <<>>

\* the step of a call: r is what it returned or raised, a its arguments
Returns(name, a, r, out) ==
    /\ op' = name
    /\ args' = a
    /\ ret' = IF r.err # "none" THEN [err |-> r.err, msg |-> r.msg] ELSE out
    /\ weights' = r.weights
    /\ layers' = r.layers
    /\ UNCHANGED <<sentence_avg, epsilon, mem>>

RewardStep(r) ==
    Returns("calculate_kl_div_reward", [weights |-> weights], r,
            [err |-> "none", value |-> r.value, kl_scores |-> r.kl_scores])

\* self.calculate_kl_div_reward(weights) on the weights the model holds
CallReward == RewardStep(calculate_kl_div_reward(weights))

ComputeLossStep(sample, reduce, r) ==
    Returns("compute_loss",
            [weights |-> weights, sample |-> sample, reduce |-> reduce], r,
            [err |-> "none", loss |-> r.loss, kl_reg |-> r.kl_reg])

\* self.compute_loss(model, net_output, sample, reduce)
CallComputeLoss(sample, reduce) ==
    ComputeLossStep(sample, reduce,
                    compute_loss(weights, sample, reduce, epsilon))

ForwardStep(sample, reduce, r) ==
    Returns("forward",
            [weights |-> weights, sample |-> sample, reduce |-> reduce], r,
            [err |-> "none", loss |-> r.loss, sample_size |-> r.sample_size,
             logging_output |-> r.logging_output])

\* self.forward(model, sample, reduce)
CallForward(sample, reduce) ==
    ForwardStep(sample, reduce,
                forward(weights, sample, reduce, epsilon, sentence_avg))

Next ==
    \/ CallReward
    \/ \E sample \in Samples, reduce \in BOOLEAN : CallComputeLoss(sample, reduce)
    \/ \E sample \in Samples, reduce \in BOOLEAN : CallForward(sample, reduce)

Spec == Init /\ [][Next]_vars

----------------------------------------------------------------------------
(* Properties of KL_div, checked under SpecKL *)

\* some last-axis slice of t has a sum that is not within 1e-6 of 1
BadSlice(t) == \E r \in 1..Len(t.rows) : ~(Abs(SeqSum(t.rows[r]) - One) < Tol)

Positions(t) == { <<r, k>> : r \in 1..Len(t.rows), k \in 1..2 }

\* C4: KL_div raises exactly when p and q differ in shape or a last-axis
\* slice of p or of q does not sum to 1 within 1e-6; the test is on q as
\* passed, so a valid q with entries at or below 1e-7 is accepted; when it
\* raises there is no value and q is as it was passed.
Thm_C4 ==
    op = "KL_div" =>
        /\ (ret.err # "none") <=>
               \/ args.p.shape # args.q.shape
               \/ BadSlice(args.p)
               \/ BadSlice(args.q)
        /\ ret.err # "none" =>
               /\ ret.err = "AssertionError"
               /\ ret.value.nan
               /\ mem.q = args.q
               /\ mem.p = args.p

Witness_C4 ==
    /\ op = "KL_div"
    /\ ret.err = "AssertionError"
    /\ args.p.shape = args.q.shape
    /\ ~BadSlice(args.p)
    /\ \E r \in 1..Len(args.q.rows) : args.q.rows[r][2] <= Floor
    /\ mem.q = args.q

\* C6: when KL_div returns, for distinct p and q, every element of q at or
\* below 1e-7 is exactly 1e-7, every other element of q has its value, p is
\* as passed, and the result is a number.
Thm_C6 ==
    (op = "KL_div" /\ ret.err = "none" /\ ~args.same) =>
        /\ mem.q.shape = args.q.shape
        /\ Len(mem.q.rows) = Len(args.q.rows)
        /\ \A r \in 1..Len(args.q.rows) :
               /\ Len(mem.q.rows[r]) = Len(args.q.rows[r])
               /\ \A k \in 1..Len(args.q.rows[r]) :
                      /\ args.q.rows[r][k] <= Floor => mem.q.rows[r][k] = Floor
                      /\ args.q.rows[r][k] > Floor =>
                             mem.q.rows[r][k] = args.q.rows[r][k]
                      /\ mem.q.rows[r][k] >= Floor
        /\ mem.p = args.p
        /\ ~ret.value.nan

Witness_C6 ==
    /\ op = "KL_div"
    /\ ret.err = "none"
    /\ ~args.same
    /\ \E x \in Positions(args.q) : args.q.rows[x[1]][x[2]] <= 0
    /\ \E x \in Positions(args.q) :
           /\ args.q.rows[x[1]][x[2]] > 0
           /\ args.q.rows[x[1]][x[2]] < Floor
    /\ \E x \in Positions(args.q) : mem.q.rows[x[1]][x[2]] > Floor
    /\ \E r \in 1..Len(mem.q.rows) : SeqSum(mem.q.rows[r]) > One

\* C7: KL_div of two distinct tensors of one shape that hold the same valid
\* distributions returns 0.
Claim_C7 ==
    (/\ op = "KL_div"
     /\ ~args.same
     /\ args.p = args.q
     /\ ~BadSlice(args.p)) =>
        /\ ret.err = "none"
        /\ ret.value = Num(0)

----------------------------------------------------------------------------
(* Properties of calculate_kl_div_reward, compute_loss and forward,        *)
(* checked under Spec                                                      *)

IsCall == op \in {"calculate_kl_div_reward", "compute_loss", "forward"}

\* the pairs (i, j) with 0 <= i < j < H
PairSet(H) == { pr \in (0..(H - 1)) \X (0..(H - 1)) : pr[1] < pr[2] }

LexLess(a, b) == a[1] < b[1] \/ (a[1] = b[1] /\ a[2] < b[2])

\* the k-th pair in ascending lexicographic order
PairAt(H, k) ==
    CHOOSE pr \in PairSet(H) :
        Cardinality({ x \in PairSet(H) : LexLess(x, pr) }) = k - 1

\* the last-axis slices of head i (0-based) of a layer tensor [H, 1, 2, 2]
HeadRows(w, i) == SubSeq(w.rows, 2 * i + 1, 2 * i + 2)

StacksFor(w, rec) ==
    LET H == w.shape[1]
        P == Len(rec.pairs)
    IN  /\ 2 * P = H * (H - 1)
        /\ \A k \in 1..P : rec.pairs[k] \in PairSet(H)
        /\ \A pr \in PairSet(H) :
               Cardinality({ k \in 1..P : rec.pairs[k] = pr }) = 1
        /\ \A k \in 1..(P - 1) : LexLess(rec.pairs[k], rec.pairs[k + 1])
        /\ P = 0 => rec.p_mat = EmptyTensor /\ rec.q_mat = EmptyTensor
        /\ P > 0 =>
               /\ rec.p_mat.shape = <<P, 1, 2, 2>>
               /\ rec.q_mat.shape = <<P, 1, 2, 2>>
               /\ Len(rec.p_mat.rows) = 2 * P
               /\ Len(rec.q_mat.rows) = 2 * P
        /\ \A k \in 1..P :
               /\ SubSeq(rec.p_mat.rows, 2 * k - 1, 2 * k)
                      = HeadRows(w, PairAt(H, k)[1])
               /\ SubSeq(rec.q_mat.rows, 2 * k - 1, 2 * k)
                      = HeadRows(w, PairAt(H, k)[2])

\* C3: for every layer tensor that is processed, the P and Q stacks have
\* H * (H - 1) / 2 entries, entry k being heads i and j of the k-th pair
\* i < j in ascending lexicographic order, each pair once.
Thm_C3 ==
    IsCall => \A l \in 1..Len(layers) : StacksFor(args.weights[l], layers[l])

Witness_C3 ==
    /\ IsCall
    /\ \E l \in 1..Len(layers) :
           /\ args.weights[l].shape[1] = 3
           /\ Len(layers[l].pairs) = 3
           /\ HeadRows(args.weights[l], 1) # HeadRows(args.weights[l], 2)

\* C5: a layer with fewer than 2 heads is skipped without an error, and the
\* result is 0 when no layer produces a value.
Claim_C5 ==
    op = "calculate_kl_div_reward" =>
        /\ ret.err = "none"
        /\ (\A l \in 1..Len(args.weights) : args.weights[l].shape[1] < 2)
               => ret.value = Num(0)

SliceDiv(p, q) ==
    SeqSum([k \in 1..Len(p) |->
               IF p[k] = 0 THEN 0
               ELSE p[k] * (log(p[k]) - log(IF q[k] <= Floor THEN Floor ELSE q[k]))])

\* the slice divergences of a layer: pairs in order, query positions within
PairDivs(w) ==
    LET H == w.shape[1]
        P == (H * (H - 1)) \div 2
    IN  [n \in 1..(2 * P) |->
            LET pr == PairAt(H, ((n - 1) \div 2) + 1)
                r == ((n - 1) % 2) + 1
            IN  Num(SliceDiv(HeadRows(w, pr[1])[r], HeadRows(w, pr[2])[r]))]

RECURSIVE AllDivs(_)
AllDivs(ws) == IF Len(ws) = 0 THEN <<>> ELSE PairDivs(Head(ws)) \o AllDivs(Tail(ws))

PlainNLL == nll_loss(Flatten(args.sample.target), args.reduce)

Claim_C2 ==
    (op \in {"compute_loss", "forward"} /\ epsilon = 0) =>
        /\ ret.err = "none"
        /\ ret.loss = PlainNLL

\* C8: forward returns (loss, sample_size, logging record); sample_size is
\* the number of target sentences under sentence averaging and the sample's
\* token count otherwise; the record has the keys loss, ntokens, nsentences,
\* sample_size, kl_reg, with the returned loss and sample_size and the
\* reward of compute_loss.
Thm_C8 ==
    (op = "forward" /\ ret.err = "none") =>
        LET cl == compute_loss(args.weights, args.sample, args.reduce, epsilon)
            lo == ret.logging_output
        IN  /\ DOMAIN ret = {"err", "loss", "sample_size", "logging_output"}
            /\ ret.loss = cl.loss
            /\ sentence_avg => ret.sample_size = Len(args.sample.target)
            /\ ~sentence_avg => ret.sample_size = args.sample.ntokens
            /\ DOMAIN lo = {"loss", "ntokens", "nsentences", "sample_size", "kl_reg"}
            /\ lo.sample_size = ret.sample_size
            /\ lo.loss = ret.loss
            /\ lo.kl_reg = cl.kl_reg
            /\ lo.ntokens = args.sample.ntokens
            /\ lo.nsentences = Len(args.sample.target)

Witness_C8 ==
    /\ op = "forward"
    /\ ret.err = "none"
    /\ sentence_avg
    /\ Len(args.sample.target) # args.sample.ntokens
    /\ ret.sample_size = Len(args.sample.target)
    /\ ~ret.logging_output.kl_reg.nan

====
